---------------------------- MODULE Spec2Model ----------------------------
(***************************************************************************)
(* EasySpot (lib.hpp): manual-memory toolkit.  block = untyped owning      *)
(* allocation with a size header in front of the payload, ref<T> = typed   *)
(* non-owning pointer, seq<T> = typed owning array on one block, and the   *)
(* debug-build registry (debug_mem_registry) that check_use / check_drop   *)
(* scan.                                                                   *)
(*                                                                         *)
(* The machine is scaled down: one address unit is one machine word, a     *)
(* size_t holds values modulo WordMod, and the free store is the arena     *)
(* 0 .. HeapSize-1.  operator new[] may place a buffer on any free run of  *)
(* cells, so a freed address can be handed out again.                      *)
(***************************************************************************)
EXTENDS Integers, Sequences, FiniteSets

\* ------------------------------------------------------------------ bounds
HeapSize == 5
MaxAllocs == 2
MaxRefs == 1
MaxSize == 1
MaxIdx == 2
\* number of values of a size_t (2^64 in the source, scaled down)
WordMod == 8

\* --------------------------------------------------------------- constants
\* sizeof(size_t) in address units: the header is one machine word.
SizeofSizeT == 1
\* content of a cell that is not initialised or not allocated (indeterminate)
Junk == -1

Word == 0 .. (WordMod - 1)
Arena == 0 .. (HeapSize - 1)
\* sizeof(PointeeT) of the element types the client instantiates
ElemSizes == {1, 2}
\* values the client stores through a ref or an index
WriteVals == {0, 1}
\* "no value": the access is a load
NoWrite == 0 - 1
BlockSizes == 1 .. MaxSize
\* capacities the client asks for; the last one overflows capacity * 2
SeqCaps == {1, 2, (WordMod \div 2) + 1}
Idxs == 0 .. MaxIdx

\* the messages of the three PANIC / ASSERTM sites
ErrUse == "Use of dead reference"
ErrDrop == "Drop of dead block. Maybe double drop?"
ErrBounds == "Index out of bounds"

VARIABLES
    debug,      \* EASYSPOT_DEBUG is defined (build mode, fixed at start)
    status,     \* "running", the message of the panic that aborted the
                \* process, or "crashed" (undefined behaviour killed it)
    mem,        \* arena cell -> word stored there, or Junk
    heap,       \* buffers operator new[] has handed out and not yet released
    registry,   \* debug_mem_registry
    blocks,     \* the client's block / seq handles, in order of construction
    refs,       \* the client's ref<T> values
    fault       \* the call that ended the process (what the stack trace names)

vars == <<debug, status, mem, heap, registry, blocks, refs, fault>>

\* ------------------------------------------------------------ free store
Cells(base, n) == base .. (base + n - 1)

Buffer(b) == Cells(b.base, b.len)

FreeCells == {a \in Arena : \A b \in heap : a \notin Buffer(b)}

\* operator new[] can return base for a request of n cells
Fits(base, n) == Cells(base, n) \subseteq FreeCells

\* the live buffers whose first cell is p (at most one)
BufferAt(p) == {b \in heap : b.base = p}

\* the words a read of cell a may yield: an indeterminate cell yields any word
ReadWord(a) == IF a \in Arena /\ mem[a] # Junk THEN {mem[a]} ELSE Word

\* ------------------------------------------------------------- registry
\* block::block, line 213: debug_mem_registry.push_back(...)
RegistryPushReplace(reg, bptr, id) ==
    <<[block |-> bptr, generation |-> 0, id |-> id]>>
RegistryPush(reg, bptr, id) ==
    Append(reg, [block |-> bptr, generation |-> 0, id |-> id])

\* block::check_drop, the scan: index of the first record of bptr, 0 if none
RegistryFindAny(reg, bptr) == IF Len(reg) > 0 THEN 1 ELSE 0
RegistryFind(reg, bptr) ==
    IF \E i \in 1 .. Len(reg) : reg[i].block = bptr
    THEN CHOOSE i \in 1 .. Len(reg) :
             /\ reg[i].block = bptr
             /\ \A j \in 1 .. (i - 1) : reg[j].block # bptr
    ELSE 0

\* block::check_drop, the removal: swap with the last record, pop_back
RegistryRemoveKeep(reg, i) == reg
RegistryRemoveFirst(reg, i) == Tail(reg)
RegistryRemovePopOnly(reg, i) == SubSeq(reg, 1, Len(reg) - 1)
RegistryRemove(reg, i) ==
    SubSeq([reg EXCEPT ![i] = reg[Len(reg)]], 1, Len(reg) - 1)

\* the size check_use reads for a record: the word in front of record.block
RecordSize(rec) == mem[rec.block - SizeofSizeT]

\* ref::check_use (debug): some record's [block, block + size] holds bptr
check_use_halfopen(addr) ==
    \E i \in 1 .. Len(registry) :
        /\ addr >= registry[i].block
        /\ addr < registry[i].block + RecordSize(registry[i])
check_use(addr) ==
    \E i \in 1 .. Len(registry) :
        /\ addr >= registry[i].block
        /\ addr <= registry[i].block + RecordSize(registry[i])

\* ------------------------------------------------------------------ init
NoFault == [op |-> "none", h |-> 0, idx |-> 0]

Init ==
    /\ debug \in BOOLEAN
    /\ status = "running"
    /\ mem = [a \in Arena |-> Junk]
    /\ heap = {}
    /\ registry = <<>>
    /\ blocks = <<>>
    /\ refs = {}
    /\ fault = NoFault

\* panic(): print_stacktrace, std::abort.  Nothing runs afterwards.
panic_wiping(msg, op, h, idx) ==
    /\ status' = msg
    /\ fault' = [op |-> op, h |-> h, idx |-> idx]
    /\ registry' = <<>>
    /\ UNCHANGED <<debug, mem, heap, blocks, refs>>
panic(msg, op, h, idx) ==
    /\ status' = msg
    /\ fault' = [op |-> op, h |-> h, idx |-> idx]
    /\ UNCHANGED <<debug, mem, heap, registry, blocks, refs>>

\* ------------------------------------------------------------ block::block
\* new uint8_t[sizeof(size_t) + size]; header := size; bptr += sizeof(size_t);
\* debug: push_back the record.  size and cap keep what the client asked for.
construct(size, kind, esz, cap) ==
    /\ status = "running"
    /\ Len(blocks) < MaxAllocs
    /\ \E base \in Arena :
        LET n == (SizeofSizeT + size) % WordMod
            bptr == base + SizeofSizeT
            id == Len(blocks) + 1
        IN  /\ n > 0
            /\ Fits(base, n)
            /\ heap' = heap \cup {[base |-> base, len |-> n, id |-> id]}
            /\ mem' = [mem EXCEPT ![base] = size]
            /\ registry' = IF debug THEN RegistryPush(registry, bptr, id)
                                    ELSE registry
            /\ blocks' = Append(blocks,
                   [bptr |-> bptr, kind |-> kind, esz |-> esz, size |-> size,
                    cap |-> cap, dropped |-> FALSE])
    /\ UNCHANGED <<debug, status, refs, fault>>

block(sz) == construct(sz, "block", 0, 0)

\* seq::seq: b(capacity * sizeof(PointeeT)), the product in size_t arithmetic
SeqBytes(cap, esz) == (cap * esz) % WordMod

seq(cap, esz) == construct(SeqBytes(cap, esz), "seq", esz, cap)

\* ------------------------------------------------------------ block::drop
\* check_drop (debug): panics when no record holds bptr
drop_outcome(h) ==
    IF debug /\ RegistryFind(registry, blocks[h].bptr) = 0
    THEN ErrDrop ELSE "ok"

\* delete[] actual_ptr.  Releasing a pointer that is not the start of a live
\* buffer is undefined: the run goes on unharmed or the process dies.
delete_array(p, h) ==
    IF BufferAt(p) # {}
    THEN /\ heap' = heap \ BufferAt(p)
         /\ mem' = [a \in Arena |->
                       IF \E b \in BufferAt(p) : a \in Buffer(b)
                       THEN Junk ELSE mem[a]]
         /\ UNCHANGED <<status, fault>>
    ELSE /\ UNCHANGED <<heap, mem>>
         /\ \/ UNCHANGED <<status, fault>>
            \/ /\ status' = "crashed"
               /\ fault' = [op |-> "drop", h |-> h, idx |-> 0]

\* block::drop (seq::drop delegates to it): check_drop, then delete[].
drop(h) ==
    /\ status = "running"
    /\ h \in 1 .. Len(blocks)
    /\ IF drop_outcome(h) # "ok"
       THEN panic(ErrDrop, "drop", h, 0)
       ELSE /\ registry' =
                  IF debug
                  THEN RegistryRemove(registry,
                                      RegistryFind(registry, blocks[h].bptr))
                  ELSE registry
            /\ delete_array(blocks[h].bptr - SizeofSizeT, h)
            /\ blocks' = [blocks EXCEPT ![h].dropped = TRUE]
            /\ UNCHANGED <<debug, refs>>

\* ---------------------------------------------------------- block::as_ref
\* ref<PointeeT>(bptr).  src and pre record where the ref came from: the
\* handle, and whether drop() had not yet been called on it.
as_ref_registering(h, esz) ==
    /\ status = "running"
    /\ h \in 1 .. Len(blocks)
    /\ blocks[h].kind = "block"
    /\ LET r == [bptr |-> blocks[h].bptr, esz |-> esz, src |-> h,
                 pre |-> ~blocks[h].dropped]
       IN  /\ Cardinality(refs \cup {r}) <= MaxRefs
           /\ refs' = refs \cup {r}
    /\ registry' = Append(registry,
                          [block |-> blocks[h].bptr, generation |-> 0, id |-> h])
    /\ UNCHANGED <<debug, status, mem, heap, blocks, fault>>
as_ref(h, esz) ==
    /\ status = "running"
    /\ h \in 1 .. Len(blocks)
    /\ blocks[h].kind = "block"
    /\ LET r == [bptr |-> blocks[h].bptr, esz |-> esz, src |-> h,
                 pre |-> ~blocks[h].dropped]
       IN  /\ Cardinality(refs \cup {r}) <= MaxRefs
           /\ refs' = refs \cup {r}
    /\ UNCHANGED <<debug, status, mem, heap, registry, blocks, fault>>

\* ------------------------------------------------------------ block::size
\* the words block::size() may return: the header word in front of bptr
size(h) == ReadWord(blocks[h].bptr - SizeofSizeT)

\* ---------------------------------------------------------- seq::capacity
\* b.size() / sizeof(PointeeT), for a header word v
CapacityOf(v, esz) == v \div esz

capacity(h) == {CapacityOf(v, blocks[h].esz) : v \in size(h)}

\* ---------------------------------------------------------------- seq::nth
\* ASSERTM(cond, msg): panics on a false cond in the debug build, expands to
\* ";" otherwise (lines 19 and 28).
AssertFails(cond) == debug /\ ~cond

\* idx < capacity()
InBoundsIncl(idx, cap) == idx <= cap
InBounds(idx, cap) == idx < cap

\* b.bptr + idx * sizeof(PointeeT)
nth_addr_unscaled(bptr, idx, esz) == bptr + idx
nth_addr(bptr, idx, esz) == bptr + ((idx * esz) % WordMod)

\* nth(idx) when capacity() evaluates to cap
nth_outcome(idx, cap) ==
    IF AssertFails(InBounds(idx, cap)) THEN ErrBounds ELSE "ok"

\* the ref nth(idx) returns
nth_ref(h, idx) ==
    [bptr |-> nth_addr(blocks[h].bptr, idx, blocks[h].esz),
     esz |-> blocks[h].esz, src |-> h, pre |-> ~blocks[h].dropped]

nth(h, idx) ==
    /\ status = "running"
    /\ h \in 1 .. Len(blocks)
    /\ blocks[h].kind = "seq"
    /\ \E cap \in capacity(h) :
        IF nth_outcome(idx, cap) # "ok"
        THEN panic(ErrBounds, "nth", h, idx)
        ELSE /\ Cardinality(refs \cup {nth_ref(h, idx)}) <= MaxRefs
             /\ refs' = refs \cup {nth_ref(h, idx)}
             /\ UNCHANGED <<debug, status, mem, heap, registry, blocks, fault>>

\* ------------------------------------------------- access to the pointee
\* a store of w into the esz cells at a.  A store into released storage
\* leaves it indeterminate.
store(m, a, esz, w) ==
    [c \in Arena |-> IF c \in Cells(a, esz) /\ c \notin FreeCells
                     THEN w ELSE m[c]]

\* a load of the esz cells at a
load(m, a, esz) == [k \in 1 .. esz |-> m[a + k - 1]]

\* *bptr as an lvalue of esz cells: a store of w, or a load (w = NoWrite).
\* Storage outside the arena is not mapped: the process dies.
access(a, esz, w, op, h, idx) ==
    IF ~(Cells(a, esz) \subseteq Arena)
    THEN /\ status' = "crashed"
         /\ fault' = [op |-> op, h |-> h, idx |-> idx]
         /\ UNCHANGED mem
    ELSE /\ mem' = IF w = NoWrite THEN mem ELSE store(mem, a, esz, w)
         /\ UNCHANGED <<status, fault>>

\* ------------------------------------------------------- seq::operator[]
\* return *nth(idx).bptr;  the raw pointer of the ref nth returns is
\* dereferenced, ref::operator* is not called.
index_outcome(idx, cap) == nth_outcome(idx, cap)

index(h, idx, w) ==
    /\ status = "running"
    /\ h \in 1 .. Len(blocks)
    /\ blocks[h].kind = "seq"
    /\ \E cap \in capacity(h) :
        IF index_outcome(idx, cap) # "ok"
        THEN panic(ErrBounds, "index", h, idx)
        ELSE /\ access(nth_ref(h, idx).bptr, blocks[h].esz, w, "index", h, idx)
             /\ UNCHANGED <<debug, heap, registry, blocks, refs>>

\* ------------------------------------------- ref::operator* / operator->
\* check_use(), then the pointee.  check_use is empty in the release build.
deref_outcome_checked(r) ==
    IF ~check_use(r.bptr) THEN ErrUse ELSE "ok"
deref_outcome(r) ==
    IF debug /\ ~check_use(r.bptr) THEN ErrUse ELSE "ok"

deref(r, w) ==
    /\ status = "running"
    /\ r \in refs
    /\ IF deref_outcome(r) # "ok"
       THEN panic(ErrUse, "deref", r.src, 0)
       ELSE /\ access(r.bptr, r.esz, w, "deref", r.src, 0)
            /\ UNCHANGED <<debug, heap, registry, blocks, refs>>

\* ------------------------------------------------- block::~block, seq::~seq
\* a handle (or a copy of it) goes out of scope: the body is empty, the
\* buffer and the registry are left alone
block_dtor(h) ==
    /\ status = "running"
    /\ h \in 1 .. Len(blocks)
    /\ UNCHANGED vars

Next ==
    \/ \E sz \in BlockSizes : block(sz)
    \/ \E cap \in SeqCaps, esz \in ElemSizes : seq(cap, esz)
    \/ \E h \in 1 .. MaxAllocs : drop(h)
    \/ \E h \in 1 .. MaxAllocs, esz \in ElemSizes : as_ref(h, esz)
    \/ \E h \in 1 .. MaxAllocs, idx \in Idxs : nth(h, idx)
    \/ \E h \in 1 .. MaxAllocs, idx \in Idxs, w \in WriteVals \cup {NoWrite} :
           index(h, idx, w)
    \/ \E r \in refs, w \in WriteVals \cup {NoWrite} : deref(r, w)
    \/ \E h \in 1 .. MaxAllocs : block_dtor(h)

Spec == Init /\ [][Next]_vars

\* the debug build alone (EASYSPOT_DEBUG defined)
InitDebug == Init /\ debug = TRUE

SpecDebug == InitDebug /\ [][Next]_vars

\* ------------------------------------------------------------ vocabulary
Handles == 1 .. Len(blocks)

Stores == WriteVals \cup {NoWrite}

\* the cells of handle h's payload as the client asked for it
Payload(h) == Cells(blocks[h].bptr, blocks[h].size)

\* handle h is a seq on which drop() was not called, whose buffer is still
\* allocated and whose header still holds the size it was built with
SeqIntact(h) ==
    /\ blocks[h].kind = "seq"
    /\ ~blocks[h].dropped
    /\ \E b \in heap : b.id = h
    /\ size(h) = {blocks[h].size}

\* the records of the registry that were inserted for handle h
RecordsOf(reg, h) == {i \in 1 .. Len(reg) : reg[i].id = h}

IsConstruct ==
    \/ \E sz \in BlockSizes : block(sz)
    \/ \E cap \in SeqCaps, esz \in ElemSizes : seq(cap, esz)

\* a drop() that returns
IsDropReturn == (\E h \in Handles : drop(h)) /\ status' = "running"

\* ----------------------------------------------------------------- claims

\* C1: debug build: once drop() has been called on a block of size > 0, every
\* dereference of a ref derived from it before the drop panics with "Use of
\* dead reference", whatever was allocated or dropped in between.
C1_DerefAfterDropPanics ==
    [][\A r \in refs, w \in Stores :
          (/\ debug
           /\ r.pre
           /\ blocks[r.src].dropped
           /\ blocks[r.src].size > 0
           /\ deref(r, w))
          => status' = ErrUse]_vars

\* C2: debug build: a drop() on a handle on which drop() was already called
\* panics with the double-drop message, whatever was allocated or dropped in
\* between.
C2_SecondDropPanics ==
    [][\A h \in Handles :
          (debug /\ blocks[h].dropped /\ drop(h)) => status' = ErrDrop]_vars

C4_IndexIsNthThenDeref ==
    debug =>
        \A h \in Handles, idx \in Idxs :
            blocks[h].kind = "seq" =>
                \A cap \in capacity(h) :
                    index_outcome(idx, cap) =
                        IF nth_outcome(idx, cap) # "ok"
                        THEN nth_outcome(idx, cap)
                        ELSE deref_outcome(nth_ref(h, idx))

\* C5: debug build: the registry holds exactly one record for each block that
\* was allocated and on which drop() was not called, none for any other, and
\* a record is removed only by the drop() of the block it was inserted for.
C5_RegistryIsTheLiveBlocks ==
    [][debug =>
          /\ \A h \in 1 .. Len(blocks') :
                /\ Cardinality(RecordsOf(registry', h)) =
                       IF blocks'[h].dropped THEN 0 ELSE 1
                /\ \A i \in RecordsOf(registry', h) :
                       registry'[i].block = blocks'[h].bptr
          /\ \A h \in Handles :
                (RecordsOf(registry, h) # {} /\ RecordsOf(registry', h) = {})
                => drop(h)]_vars

\* C6: debug build: a construction adds exactly one record, a drop() that
\* returns removes exactly one, a drop() that panics and every other
\* operation leave the number of records unchanged; it is never negative.
C6_RegistryCount ==
    [][debug =>
          LET d == Len(registry') - Len(registry)
          IN  /\ IsConstruct => d = 1
              /\ IsDropReturn => d = 0 - 1
              /\ (~IsConstruct /\ ~IsDropReturn) => d = 0
              /\ Len(registry') >= 0]_vars

\* C6 witness: a drop() has returned in the debug build and took one of the
\* two records away
C6_Witness ==
    /\ debug
    /\ status = "running"
    /\ Len(blocks) = 2
    /\ \E h \in Handles : blocks[h].dropped
    /\ Len(registry) = 1

\* C7: block::size() returns the size asked for at construction for as long
\* as drop() was not called on the block: no operation, stores through refs
\* included, changes the header word.
C7_SizeIsTheRequestedSize ==
    \A h \in Handles :
        (~blocks[h].dropped /\ blocks[h].size > 0)
        => size(h) = {blocks[h].size}

\* C8: a seq built with capacity c > 0 reports capacity() = c, and its block's
\* size() is c * sizeof(T) taken modulo the word.
C8_CapacityIsTheRequestedCapacity ==
    \A h \in Handles :
        (blocks[h].kind = "seq" /\ ~blocks[h].dropped)
        => /\ capacity(h) = {blocks[h].cap}
           /\ size(h) = {SeqBytes(blocks[h].cap, blocks[h].esz)}

\* C9: on a live seq the elements of two in-bounds indices i # j share no
\* cell: a store through index j leaves what index i reads unchanged, and a
\* read of index i yields the value stored through index i.
C9_IndexIndependence ==
    \A h \in Handles :
        SeqIntact(h) =>
            \A cap \in capacity(h), i \in Idxs, j \in Idxs, w \in WriteVals :
                (i # j /\ InBounds(i, cap) /\ InBounds(j, cap)) =>
                    LET e == blocks[h].esz
                        ai == nth_ref(h, i).bptr
                        aj == nth_ref(h, j).bptr
                    IN  /\ Cells(ai, e) \cap Cells(aj, e) = {}
                        /\ load(store(mem, aj, e, w), ai, e) = load(mem, ai, e)
                        /\ load(store(mem, ai, e, w), ai, e) = [k \in 1 .. e |-> w]

\* C9 witness: a live seq of two two-cell elements, element 0 holding 1 and
\* element 1 holding 0, both stored through the seq
C9_Witness ==
    \E h \in Handles :
        /\ SeqIntact(h)
        /\ blocks[h].esz = 2
        /\ capacity(h) = {2}
        /\ load(mem, nth_ref(h, 0).bptr, 2) = <<1, 1>>
        /\ load(mem, nth_ref(h, 1).bptr, 2) = <<0, 0>>

\* C10: debug build: no panic without a violation: (a) the dereference of a
\* ref into the payload of a block on which drop() was not called, (b) the
\* first drop() of a block and (c) nth / indexing with idx < capacity() on a
\* seq that was not dropped all return without a panic.
C10_NoSpeculativePanic ==
    [][debug =>
          /\ \A r \in refs, w \in Stores :
                (/\ \E h \in Handles :
                        ~blocks[h].dropped /\ r.bptr \in Payload(h)
                 /\ deref(r, w))
                => status' # ErrUse
          /\ \A h \in Handles :
                (~blocks[h].dropped /\ drop(h)) => status' # ErrDrop
          /\ \A h \in Handles, idx \in Idxs :
                (/\ blocks[h].kind = "seq"
                 /\ ~blocks[h].dropped
                 /\ \A cap \in capacity(h) : idx < cap
                 /\ nth(h, idx) \/ \E w \in Stores : index(h, idx, w))
                => status' # ErrBounds]_vars

\* handle h's buffer is allocated and drop() was not called on h
LiveBlock(h) == ~blocks[h].dropped /\ \E b \in heap : b.id = h

\* C11: debug build: whenever the dereference of a ref returns without a
\* panic, the ref's address lies in the payload [bptr, bptr + size) of some
\* block that is allocated and not dropped.
C11_DerefReturnsOnlyInsideLivePayload ==
    (debug /\ status = "running") =>
        \A r \in refs :
            deref_outcome(r) = "ok"
            => \E h \in Handles : LiveBlock(h) /\ r.bptr \in Payload(h)

\* C12: release build: no dereference and no drop() ever panics, the registry
\* is never written (it stays empty), and every drop(), a second one on the
\* same handle included, reaches delete[]: no buffer starts at the handle's
\* address afterwards.
C12_ReleaseHasNoChecks ==
    [][~debug =>
          /\ status' \notin {ErrUse, ErrDrop}
          /\ registry = <<>> /\ registry' = <<>>
          /\ \A h \in Handles :
                drop(h) =>
                    \A b \in heap' : b.base # blocks[h].bptr - SizeofSizeT]_vars

\* C12 witness: the release build let a drop() through to delete[] on an
\* address that holds no buffer (a second drop), and the process died of it
C12_Witness ==
    /\ ~debug
    /\ status = "crashed"
    /\ fault.op = "drop"
    /\ blocks[fault.h].dropped
    /\ registry = <<>>

\* the records a registry holds, whatever their order
Records(reg) == {reg[i] : i \in 1 .. Len(reg)}

\* C13: a buffer is released, and a registry record removed, only by a call
\* of drop(): construction, the destructors, as_ref, nth, indexing and the
\* dereference of a ref release no buffer and remove no record.
C13_OnlyDropReleases ==
    [][(\/ \E b \in heap : b \notin heap'
        \/ \E rec \in Records(registry) : rec \notin Records(registry'))
       => \E h \in Handles : drop(h)]_vars

\* C13 witness: debug build, two blocks built, a ref taken and stored through
\* (the payload of one block is written), no drop(): both buffers are
\* allocated and both records are in the registry
C13_Witness ==
    /\ debug
    /\ status = "running"
    /\ Len(blocks) = 2
    /\ \A h \in Handles : LiveBlock(h)
    /\ Len(registry) = 2
    /\ refs # {}
    /\ \E h \in Handles : mem[blocks[h].bptr] # Junk

\* C14: debug build: the check of a dereference passes if and only if some
\* record of the registry has block <= address <= block + size, both bounds
\* inclusive, size being the word in front of the record's block; otherwise
\* the dereference panics with "Use of dead reference".
C14_CheckUseIsTheInclusiveRange ==
    [][\A r \in refs, w \in Stores :
          (debug /\ deref(r, w))
          => (status' = ErrUse <=>
                 ~ \E i \in 1 .. Len(registry) :
                       /\ registry[i].block <= r.bptr
                       /\ r.bptr <= registry[i].block
                                        + mem[registry[i].block - SizeofSizeT])]_vars

\* C14 witness: the debug build scanned a registry that holds a record and
\* panicked on a dereference whose address no record's range holds
C14_Witness ==
    /\ debug
    /\ status = ErrUse
    /\ fault.op = "deref"
    /\ Len(registry) >= 1
    /\ \A r \in refs : ~check_use(r.bptr)

\* C15: debug build: a drop() that finds a record of its address removes
\* exactly that record: the registry is one record shorter and the set of the
\* other records is unchanged, wherever the record stood (first of several,
\* last, or alone).
C15_DropRemovesExactlyItsRecord ==
    [][\A h \in Handles :
          (/\ debug
           /\ drop(h)
           /\ \E rec \in Records(registry) : rec.block = blocks[h].bptr)
          => /\ Len(registry') = Len(registry) - 1
             /\ Records(registry') =
                    {rec \in Records(registry) : rec.block # blocks[h].bptr}]_vars

\* C15 witness: debug build, two blocks at different addresses, drop() was
\* called on the first one built and returned: the registry holds the record
\* of the second and nothing else
C15_Witness ==
    /\ debug
    /\ status = "running"
    /\ Len(blocks) = 2
    /\ blocks[1].dropped
    /\ LiveBlock(2)
    /\ blocks[1].bptr # blocks[2].bptr
    /\ Len(registry) = 1
    /\ registry[1].block = blocks[2].bptr

\* the three detected violations
Panics == {ErrUse, ErrDrop, ErrBounds}

\* C16: debug build: a detected violation ends the process where it is
\* detected: the step that panics releases no buffer, changes no record, reads
\* or writes no cell and hands out no ref, and no operation runs after it.
C16_PanicIsFatalAndTouchesNothing ==
    [][debug =>
          /\ status \notin Panics
          /\ status' \in Panics
                => UNCHANGED <<mem, heap, registry, blocks, refs>>]_vars

\* C16 witness: the debug build panicked on a drop() while another block was
\* allocated and registered: buffer and record are still there
C16_Witness ==
    /\ debug
    /\ status = ErrDrop
    /\ fault.op = "drop"
    /\ \E h \in Handles : LiveBlock(h) /\ RecordsOf(registry, h) # {}

\* a step of a ref operation: as_ref, nth, or a dereference
IsRefOp ==
    \/ \E h \in Handles, esz \in ElemSizes : as_ref(h, esz)
    \/ \E h \in Handles, idx \in Idxs : nth(h, idx)
    \/ \E r \in refs, w \in Stores : deref(r, w)

\* C17: a ref has no part in a block's lifetime: building one (as_ref, nth)
\* and dereferencing it allocate nothing, release nothing, leave the registry
\* as it is, records and order, and change no handle; and drop() leaves every
\* ref the client holds as it is, so a ref outlives its block as a value.
\* (Stated by contraposition: a step that changes the free store, the
\* registry or a handle is no ref operation; one that changes refs no drop.)
C17_RefHasNoPartInLifetime ==
    [][/\ (heap' # heap \/ registry' # registry \/ blocks' # blocks)
             => ~IsRefOp
       /\ refs' # refs => ~ \E h \in Handles : drop(h)]_vars

\* C17 witness: the client holds a ref taken from a block before its drop(),
\* drop() has been called on that block and the run goes on
C17_Witness ==
    /\ status = "running"
    /\ \E r \in refs : r.pre /\ blocks[r.src].dropped

\* C18: debug build: drop() on a seq is drop() on its one block: the first
\* call returns, removes the record inserted for that block and releases its
\* buffer; a second call panics with the double-drop message; and the seq
\* keeps the block it was built with.
C18_SeqDropIsBlockDrop ==
    [][\A h \in Handles :
          /\ blocks'[h].bptr = blocks[h].bptr
          /\ (debug /\ blocks[h].kind = "seq" /\ drop(h))
                => IF blocks[h].dropped
                   THEN status' = ErrDrop
                   ELSE /\ status' = "running"
                        /\ RecordsOf(registry, h) # {}
                        /\ RecordsOf(registry', h) = {}
                        /\ ~ \E b \in heap' : b.id = h]_vars

\* C19: debug build: delete[] is reached only for a buffer that is allocated:
\* every drop() that gets past check_drop, a drop through a stale handle
\* after the address was handed out again included, finds a live buffer at
\* the address it releases, so no buffer is released twice.
C19_NoDoubleDelete ==
    [][\A h \in Handles :
          (debug /\ drop(h) /\ status' # ErrDrop)
          => /\ BufferAt(blocks[h].bptr - SizeofSizeT) # {}
             /\ status' = "running"]_vars

\* C19 witness: debug build: the buffer of the second block was released by
\* a drop() through the stale first handle (same address), and the drop() of
\* the second handle then panicked instead of reaching delete[] again
C19_Witness ==
    /\ debug
    /\ Len(blocks) = 2
    /\ blocks[1].bptr = blocks[2].bptr
    /\ blocks[1].dropped
    /\ ~blocks[2].dropped
    /\ heap = {}
    /\ status = ErrDrop
    /\ fault.op = "drop"
    /\ fault.h = 2

\* C20: debug build: every record check_use scans belongs to a buffer that is
\* allocated: the header word it reads, in front of record.block, is the
\* first cell of a live buffer, never released storage.
C20_RecordsPointIntoLiveBuffers ==
    debug =>
        \A i \in 1 .. Len(registry) :
            /\ BufferAt(registry[i].block - SizeofSizeT) # {}
            /\ registry[i].block - SizeofSizeT \notin FreeCells
            /\ RecordSize(registry[i]) # Junk

\* C20 witness: debug build: after the drop() of one block, a dereference
\* was checked against the one record left and stored into its block
C20_Witness ==
    /\ debug
    /\ status = "running"
    /\ \E h \in Handles : blocks[h].dropped
    /\ Len(registry) = 1
    /\ \E r \in refs :
          r.bptr \in Arena /\ check_use(r.bptr) /\ mem[r.bptr] # Junk
=============================================================================
